---- MODULE Spec2Model ----
(***************************************************************************)
(* Model of the elk-llm scripts:                                           *)
(*   - gemma3-elastic-agent/main.py: ElasticsearchMCPClient (URL           *)
(*     validation, the get_session async context manager with its          *)
(*     HTTPS -> HTTP fallback) and Gemma3ElasticAgent (initialize_agent,   *)
(*     query);                                                             *)
(*   - main.py: ElasticsearchTool._run and the POST /query handler.        *)
(* Python strings are sequences of one-character strings, so that rstrip,  *)
(* strip, startswith, replace and urlparse are computed, not assumed.      *)
(***************************************************************************)
EXTENDS Integers, Sequences, FiniteSets, TLC

----------------------------------------------------------------------------
(* Bounds *)

\* query() calls made on one Gemma3ElasticAgent object
MaxQueries == 2
\* tool calls the agent loop makes while serving one POST /query
MaxToolCalls == 2

----------------------------------------------------------------------------
(* Python str operations *)

Min(S) == CHOOSE x \in S : \A y \in S : x <= y

Max(S) == CHOOSE x \in S : \A y \in S : x >= y

\* characters str.strip() removes (those the inputs below can hold)
Whitespace == {" ", "\t", "\n"}

\* s.rstrip(c)
RStrip(s, c) ==
    SubSeq(s, 1, Min({k \in 0..Len(s) : \A j \in (k + 1)..Len(s) : s[j] = c}))

\* s.strip()
Strip(s) ==
    LET lo == Min({k \in 1..(Len(s) + 1) : \A j \in 1..(k - 1) : s[j] \in Whitespace}
                  \cap {k \in 1..(Len(s) + 1) : k = Len(s) + 1 \/ s[k] \notin Whitespace})
        hi == Max({k \in 0..Len(s) : \A j \in (k + 1)..Len(s) : s[j] \in Whitespace}
                  \cap {k \in 0..Len(s) : k = 0 \/ s[k] \notin Whitespace})
    IN  IF lo > hi THEN <<>> ELSE SubSeq(s, lo, hi)

\* s.startswith(p)
StartsWith(s, p) == Len(s) >= Len(p) /\ SubSeq(s, 1, Len(p)) = p

\* s.find(sub) as a 1-based index, 0 when sub does not occur
Find(s, sub) ==
    LET at == {k \in 1..(Len(s) - Len(sub) + 1) : SubSeq(s, k, k + Len(sub) - 1) = sub}
    IN  IF at = {} THEN 0 ELSE Min(at)

\* sub in s
Contains(s, sub) == Find(s, sub) # 0

\* s.replace(old, new): every non-overlapping occurrence, leftmost first
RECURSIVE Replace(_, _, _)
Replace(s, old, new) ==
    LET i == Find(s, old)
    IN  IF i = 0 \/ old = <<>> THEN s
        ELSE SubSeq(s, 1, i - 1) \o new
             \o Replace(SubSeq(s, i + Len(old), Len(s)), old, new)

UpperLetters ==
    {"A", "B", "C", "D", "E", "F", "G", "H", "I", "J", "K", "L", "M",
     "N", "O", "P", "Q", "R", "S", "T", "U", "V", "W", "X", "Y", "Z"}

LowerLetters ==
    {"a", "b", "c", "d", "e", "f", "g", "h", "i", "j", "k", "l", "m",
     "n", "o", "p", "q", "r", "s", "t", "u", "v", "w", "x", "y", "z"}

Digits == {"0", "1", "2", "3", "4", "5", "6", "7", "8", "9"}

LowerOf ==
    [c \in UpperLetters |->
        CASE c = "A" -> "a" [] c = "B" -> "b" [] c = "C" -> "c" [] c = "D" -> "d"
          [] c = "E" -> "e" [] c = "F" -> "f" [] c = "G" -> "g" [] c = "H" -> "h"
          [] c = "I" -> "i" [] c = "J" -> "j" [] c = "K" -> "k" [] c = "L" -> "l"
          [] c = "M" -> "m" [] c = "N" -> "n" [] c = "O" -> "o" [] c = "P" -> "p"
          [] c = "Q" -> "q" [] c = "R" -> "r" [] c = "S" -> "s" [] c = "T" -> "t"
          [] c = "U" -> "u" [] c = "V" -> "v" [] c = "W" -> "w" [] c = "X" -> "x"
          [] c = "Y" -> "y" [] c = "Z" -> "z"]

\* s.lower()
Lower(s) == [k \in 1..Len(s) |-> IF s[k] \in UpperLetters THEN LowerOf[s[k]] ELSE s[k]]

----------------------------------------------------------------------------
(* urllib.parse.urlparse, as far as the validator reads its result *)

\* urllib.parse.scheme_chars
SchemeChars == UpperLetters \cup LowerLetters \cup Digits \cup {"+", "-", "."}

\* urlsplit: the scheme is the text before the first ':' when it starts with
\* a letter and holds scheme characters only; it is lower-cased
HasScheme(s) ==
    LET i == Find(s, <<":">>)
    IN  /\ i > 1
        /\ s[1] \in UpperLetters \cup LowerLetters
        /\ \A k \in 1..(i - 1) : s[k] \in SchemeChars

UrlScheme(s) ==
    IF HasScheme(s) THEN Lower(SubSeq(s, 1, Find(s, <<":">>) - 1)) ELSE <<>>

AfterScheme(s) ==
    IF HasScheme(s) THEN SubSeq(s, Find(s, <<":">>) + 1, Len(s)) ELSE s

\* urlsplit / _splitnetloc: after '//' the netloc runs to the first of / ? #
UrlNetloc(s) ==
    LET r == AfterScheme(s)
        stops == {k \in 3..Len(r) : r[k] \in {"/", "?", "#"}}
    IN  IF Len(r) >= 2 /\ r[1] = "/" /\ r[2] = "/"
        THEN SubSeq(r, 3, IF stops = {} THEN Len(r) ELSE Min(stops) - 1)
        ELSE <<>>

\* urlsplit raises ValueError("Invalid IPv6 URL") on an unbalanced bracket
UrlParseRaises(s) ==
    LET n == UrlNetloc(s)
    IN  Contains(n, <<"[">>) # Contains(n, <<"]">>)

\* SplitResult.hostname: the netloc without userinfo and port, lower-cased;
\* <<>> stands for None
UrlHostname(s) ==
    LET n == UrlNetloc(s)
        ats == {k \in 1..Len(n) : n[k] = "@"}
        hostinfo == IF ats = {} THEN n ELSE SubSeq(n, Max(ats) + 1, Len(n))
        ob == Find(hostinfo, <<"[">>)
        bracketed == SubSeq(hostinfo, ob + 1, Len(hostinfo))
        cb == Find(bracketed, <<"]">>)
        colon == Find(hostinfo, <<":">>)
        host == IF ob # 0
                THEN SubSeq(bracketed, 1, IF cb = 0 THEN Len(bracketed) ELSE cb - 1)
                ELSE SubSeq(hostinfo, 1, IF colon = 0 THEN Len(hostinfo) ELSE colon - 1)
    IN  Lower(host)

----------------------------------------------------------------------------
(* ElasticsearchMCPClient: URL validation *)

HTTPS_PREFIX == <<"h", "t", "t", "p", "s", ":", "/", "/">>

HTTP_PREFIX == <<"h", "t", "t", "p", ":", "/", "/">>

\* the prefixes of lines 51-54 and of line 102
InternalPrefixes ==
    { <<"1", "7", "2", ".">>,
      <<"1", "9", "2", ".", "1", "6", "8", ".">>,
      <<"1", "0", ".">>,
      <<"l", "o", "c", "a", "l", "h", "o", "s", "t">> }

LOCALHOST == <<"l", "o", "c", "a", "l", "h", "o", "s", "t">>

\* A constructor argument: None, or a str
NoneArg == [isNone |-> TRUE, str |-> <<>>]

StrArg(s) == [isNone |-> FALSE, str |-> s]

SchemeParts ==
    { <<>>,
      <<"h", "t", "t", "p", ":", "/", "/">>,
      <<"h", "t", "t", "p", "s", ":", "/", "/">>,
      <<"H", "T", "T", "P", "S", ":", "/", "/">>,
      <<"h", "t", "t", "p", ":">>,
      <<"/", "/">> }

AuthorityParts ==
    { <<>>,
      <<"1", "0", ".", "0", ".", "0", ".", "5">>,
      <<"1", "0", ".", "0", ".", "0", ".", "5", ":", "9", "2", "0", "0">>,
      <<"1", "7", "2", ".", "1", "6", ".", "0", ".", "9">>,
      <<"1", "9", "2", ".", "1", "6", "8", ".", "1", ".", "7">>,
      <<"l", "o", "c", "a", "l", "h", "o", "s", "t">>,
      <<"l", "o", "c", "a", "l", "h", "o", "s", "t", ":", "9", "2", "0", "0">>,
      <<"l", "o", "c", "a", "l", "h", "o", "s", "t", ".", "i", "o">>,
      <<"e", "s", ".", "c", "o", "r", "p", ".", "i", "o">>,
      <<"u", "@", "1", "0", ".", "0", ".", "0", ".", "5">>,
      <<"L", "O", "C", "A", "L", "H", "O", "S", "T">>,
      <<":", "9", "2", "0", "0">>,
      <<"u", "@">>,
      <<"[", ":", ":", "1", "]">>,
      <<"[", ":", ":", "1">>,
      <<"1", "9", "2", ".", "1", "6", ".", "1", ".", "7">>,
      <<"1", "1", "0", ".", "0", ".", "0", ".", "5">> }

PathParts ==
    { <<>>,
      <<"/">>,
      <<"/", "/">>,
      <<"/", "l", "o", "g", "s">>,
      <<"/", "l", "o", "g", "s", "/">>,
      <<"/", "r", "=", "h", "t", "t", "p", "s", ":", "/", "/", "b">> }

BlankStrings == { <<>>, <<" ">>, <<" ", " ">>, <<"\t", " ">>, <<"\n">> }

\* The values of ELASTIC_URL / elastic_config["elastic_url"] the model tries
UrlInputs ==
    {NoneArg}
    \cup {StrArg(b) : b \in BlankStrings}
    \cup {StrArg(sc \o au \o pa) : sc \in SchemeParts, au \in AuthorityParts, pa \in PathParts}

\* IsBlank without the test for None
IsBlankNoNone(arg) == ~arg.isNone /\ Strip(arg.str) = <<>>

\* line 34: not url or url.strip() == ""
IsBlank(arg) == arg.isNone \/ arg.str = <<>> \/ Strip(arg.str) = <<>>

\* Normalize without the rstrip
NormalizeKeep(s) == s

\* line 38: url.rstrip('/')
Normalize(s) == RStrip(s, "/")

\* line 43: not parsed.scheme or not parsed.netloc
MissingSchemeOrNetloc(s) == UrlScheme(s) = <<>> \/ UrlNetloc(s) = <<>>

\* lines 50-57: the validator's detection of an internal https URL (it only
\* logs a warning there)
InternalHost(s) ==
    LET h == UrlHostname(s)
    IN  /\ h # <<>>
        /\ \/ \E p \in InternalPrefixes \ {LOCALHOST} : StartsWith(h, p)
           \/ h = LOCALHOST

WarnsInternalHttps(s) == InternalHost(s) /\ UrlScheme(s) = <<"h", "t", "t", "p", "s">>

\* _validate_and_normalize_url: the exception it raises ("none" when it
\* returns) and the value it returns
Validate(arg) ==
    IF IsBlank(arg) THEN [exc |-> "ValueError", url |-> <<>>]
    ELSE IF arg.isNone THEN [exc |-> "AttributeError", url |-> <<>>]
    ELSE LET u == Normalize(arg.str)
         IN  IF UrlParseRaises(u) THEN [exc |-> "ValueError", url |-> <<>>]
             ELSE IF MissingSchemeOrNetloc(u) THEN [exc |-> "ValueError", url |-> <<>>]
             ELSE [exc |-> "none", url |-> u]

----------------------------------------------------------------------------
(* ElasticsearchMCPClient.get_session: the fallback rule *)

\* lines 100-103
FallbackApplies(url) ==
    /\ Contains(url, HTTPS_PREFIX)
    /\ \E p \in InternalPrefixes : StartsWith(url, HTTPS_PREFIX \o p)

\* HttpUrl without the replace: the retry reuses the https URL
HttpUrlSame(url) == url

\* line 104
HttpUrl(url) == Replace(url, HTTPS_PREFIX, HTTP_PREFIX)

----------------------------------------------------------------------------
(* State *)

VARIABLES
    \* --- gemma3-elastic-agent/main.py ---
    pc,             \* where the Gemma3ElasticAgent program is
    ctor_arg,       \* the elastic_url handed to ElasticsearchMCPClient(...)
    ctor_exc,       \* what the constructor raised ("none": it returned)
    client,         \* TRUE once an ElasticsearchMCPClient object exists
    elastic_url,    \* ElasticsearchMCPClient.elastic_url
    llm,            \* Gemma3ElasticAgent.llm is not None
    agent,          \* 0: Gemma3ElasticAgent.agent is None; else the id of the
                    \* MCP session its tools were loaded from
    nq,             \* query() calls made so far
    q_exc,          \* what the last query() raised to its caller ("none")
    cause,          \* the exception of the external call whose failure ended
                    \* the last query() ("none")
    \* one use of get_session (one entry of the async with block)
    gs,             \* where the get_session generator is suspended
    e_saved,        \* the exception bound to e at line 96
    entry_url,      \* elastic_url when the use began
    launches,       \* the --elasticsearch-url of every MCP server launched
    conn1_failed,   \* the first connection attempt failed
    conn2_ok,       \* the second connection attempt succeeded
    cur,            \* id of the session the with block received (0: none)
    cur_url,        \* the URL that session's server was launched with
    handed,         \* sessions the with block has received
    yields,         \* times the generator has yielded
    body_exc,       \* what the with block's body raised ("none")
    body_launches,  \* Len(launches) when the body finished
    \* MCP sessions / server subprocesses
    nsess,          \* sessions opened so far
    open,           \* ids of the sessions that are open
    \* --- main.py ---
    rpc,            \* where the POST /query handler is
    question,       \* body.get("question") of the request being served
    agent_runs,     \* agent.run calls made for that request
    run_arg,        \* the argument of the last agent.run call
    run_result,     \* what agent.run returned ("None": nothing yet)
    http_reply,     \* what the handler returned
    ntools,         \* tool calls made during this agent.run
    tool_args,      \* (query, start_date, end_date) of the last _run call
    tool_body,      \* the search body the last _run call built
    tool_fail,      \* how the HTTP call of the last _run call ended
    tool_ret        \* what the last _run call returned

clientVars ==
    <<pc, ctor_arg, ctor_exc, client, elastic_url, llm, agent, nq, q_exc, cause,
      gs, e_saved, entry_url, launches, conn1_failed, conn2_ok, cur, cur_url,
      handed, yields, body_exc, body_launches, nsess, open>>

restVars ==
    <<rpc, question, agent_runs, run_arg, run_result, http_reply, ntools,
      tool_args, tool_body, tool_fail, tool_ret>>

vars == <<clientVars, restVars>>

\* Python None where the other values are strings
NONE == "None"

----------------------------------------------------------------------------
(* Gemma3ElasticAgent / ElasticsearchMCPClient *)

useVars ==
    <<gs, e_saved, entry_url, launches, conn1_failed, conn2_ok, cur, cur_url,
      handed, yields, body_exc, body_launches>>

\* Gemma3ElasticAgent.__init__ (lines 142-146), which constructs the client
\* (lines 27-30): the object exists only if the validator returns
Construct(arg) ==
    /\ pc = "new"
    /\ ctor_arg' = arg
    /\ ctor_exc' = Validate(arg).exc
    /\ IF Validate(arg).exc = "none"
       THEN /\ client' = TRUE
            /\ elastic_url' = Validate(arg).url
            /\ pc' = "idle"
       ELSE /\ client' = FALSE
            /\ elastic_url' = <<>>
            /\ pc' = "rejected"
    /\ UNCHANGED <<llm, agent, nq, q_exc, cause, useVars, nsess, open, restVars>>

\* query, lines 191-193: a new call; the agent is initialized if there is none
QueryStart ==
    /\ pc = "idle"
    /\ nq < MaxQueries
    /\ nq' = nq + 1
    /\ q_exc' = "none"
    /\ cause' = "none"
    /\ pc' = IF agent # 0 THEN "invoke" ELSE IF llm THEN "enter" ELSE "init_llm"
    /\ UNCHANGED <<ctor_arg, ctor_exc, client, elastic_url, llm, agent, useVars,
                   nsess, open, restVars>>

\* _initialize_llm (lines 148-163): ChatOpenAI(...) returns or raises; the
\* exception is logged and re-raised through initialize_agent and query
InitLLM ==
    /\ pc = "init_llm"
    /\ \E ok \in BOOLEAN :
         IF ok
         THEN /\ llm' = TRUE
              /\ pc' = "enter"
              /\ UNCHANGED <<q_exc, cause>>
         ELSE /\ llm' = FALSE
              /\ pc' = "idle"
              /\ q_exc' = "LLMErr"
              /\ cause' = "LLMErr"
    /\ UNCHANGED <<ctor_arg, ctor_exc, client, elastic_url, agent, nq, useVars,
                   nsess, open, restVars>>

\* __aenter__ of get_session (lines 65-94, and 96-137 when the first attempt
\* raises before the yield): the generator runs to its first yield or raises.
\* ok1 / ok2: whether launching the server and session.initialize() succeed.
EnterSession ==
    /\ pc = "enter"
    /\ \E ok1, ok2 \in BOOLEAN :
         LET url == elastic_url
             http_url == HttpUrl(url)
         IN  /\ entry_url' = url
             /\ conn1_failed' = ~ok1
             /\ body_exc' = "none"
             /\ body_launches' = 0
             /\ IF ok1
                THEN \* line 94: the https (or only) session is yielded
                     /\ launches' = <<url>>
                     /\ nsess' = nsess + 1
                     /\ open' = open \cup {nsess + 1}
                     /\ cur' = nsess + 1
                     /\ cur_url' = url
                     /\ gs' = "line94"
                     /\ e_saved' = "none"
                     /\ conn2_ok' = FALSE
                     /\ handed' = 1
                     /\ yields' = 1
                     /\ pc' = "body"
                     /\ UNCHANGED <<elastic_url, q_exc, cause>>
                ELSE IF FallbackApplies(url)
                THEN IF ok2
                     THEN \* lines 126-131: the http session is yielded
                          /\ launches' = <<url, http_url>>
                          /\ nsess' = nsess + 1
                          /\ open' = open \cup {nsess + 1}
                          /\ cur' = nsess + 1
                          /\ cur_url' = http_url
                          /\ elastic_url' = http_url
                          /\ gs' = "line131"
                          /\ e_saved' = "ConnErr1"
                          /\ conn2_ok' = TRUE
                          /\ handed' = 1
                          /\ yields' = 1
                          /\ pc' = "body"
                          /\ UNCHANGED <<q_exc, cause>>
                     ELSE \* lines 134-137: the retry failed, e is re-raised
                          /\ launches' = <<url, http_url>>
                          /\ gs' = "ended"
                          /\ e_saved' = "ConnErr1"
                          /\ conn2_ok' = FALSE
                          /\ cur' = 0
                          /\ cur_url' = <<>>
                          /\ handed' = 0
                          /\ yields' = 0
                          /\ pc' = "idle"
                          /\ q_exc' = "ConnErr1"
                          /\ cause' = "ConnErr1"
                          /\ UNCHANGED <<elastic_url, nsess, open>>
                ELSE \* line 137: no fallback, e is re-raised
                     /\ launches' = <<url>>
                     /\ gs' = "ended"
                     /\ e_saved' = "ConnErr1"
                     /\ conn2_ok' = FALSE
                     /\ cur' = 0
                     /\ cur_url' = <<>>
                     /\ handed' = 0
                     /\ yields' = 0
                     /\ pc' = "idle"
                     /\ q_exc' = "ConnErr1"
                     /\ cause' = "ConnErr1"
                     /\ UNCHANGED <<elastic_url, nsess, open>>
    /\ UNCHANGED <<ctor_arg, ctor_exc, client, llm, agent, nq, restVars>>

\* the body of the with block in initialize_agent (lines 174-183):
\* load_mcp_tools and create_react_agent return, or one of them raises
Body ==
    /\ pc = "body"
    /\ \E ok \in BOOLEAN :
         IF ok
         THEN /\ agent' = cur
              /\ body_exc' = "none"
         ELSE /\ agent' = agent
              /\ body_exc' = "BodyErr"
    /\ body_launches' = Len(launches)
    /\ pc' = "exit"
    /\ UNCHANGED <<ctor_arg, ctor_exc, client, elastic_url, llm, nq, q_exc, cause,
                   gs, e_saved, entry_url, launches, conn1_failed, conn2_ok, cur,
                   cur_url, handed, yields, nsess, open, restVars>>

\* __aexit__ of get_session. Without an exception the generator is resumed
\* and ends (after line 94, or at the return of line 132). With one, it is
\* thrown into the generator at the yield it is suspended at: inside the try
\* of line 65 (yield of line 94) or inside the try of line 107 (yield of
\* line 131). contextlib raises RuntimeError("generator didn't stop after
\* athrow()") when the generator then yields again.
ExitSession ==
    /\ pc = "exit"
    /\ \E ok2 \in BOOLEAN :
         LET http_url == HttpUrl(elastic_url)
         IN  IF body_exc = "none"
             THEN \* the session and its server are closed; initialize_agent returns
                  /\ open' = open \ {cur}
                  /\ gs' = "ended"
                  /\ pc' = "invoke"
                  /\ UNCHANGED <<elastic_url, e_saved, launches, conn2_ok, yields,
                                 nsess, q_exc, cause>>
             ELSE IF gs = "line94"
             THEN \* lines 96-103: except Exception as e catches the body's exception
                  IF FallbackApplies(elastic_url)
                  THEN IF ok2
                       THEN \* lines 126-131: a second session is yielded
                            /\ launches' = Append(launches, http_url)
                            /\ nsess' = nsess + 1
                            /\ open' = (open \ {cur}) \cup {nsess + 1}
                            /\ elastic_url' = http_url
                            /\ gs' = "line131"
                            /\ e_saved' = body_exc
                            /\ conn2_ok' = TRUE
                            /\ yields' = yields + 1
                            /\ pc' = "idle"
                            /\ q_exc' = "RuntimeError"
                            /\ cause' = body_exc
                       ELSE \* lines 134-137
                            /\ launches' = Append(launches, http_url)
                            /\ open' = open \ {cur}
                            /\ gs' = "ended"
                            /\ e_saved' = body_exc
                            /\ pc' = "idle"
                            /\ q_exc' = body_exc
                            /\ cause' = body_exc
                            /\ UNCHANGED <<elastic_url, conn2_ok, yields, nsess>>
                  ELSE \* line 137
                       /\ open' = open \ {cur}
                       /\ gs' = "ended"
                       /\ e_saved' = body_exc
                       /\ pc' = "idle"
                       /\ q_exc' = body_exc
                       /\ cause' = body_exc
                       /\ UNCHANGED <<elastic_url, launches, conn2_ok, yields, nsess>>
             ELSE \* gs = "line131": lines 134-137, the except of the retry catches
                  \* the body's exception and the bare raise re-raises e
                  /\ open' = open \ {cur}
                  /\ gs' = "ended"
                  /\ pc' = "idle"
                  /\ q_exc' = e_saved
                  /\ cause' = body_exc
                  /\ UNCHANGED <<elastic_url, e_saved, launches, conn2_ok, yields, nsess>>
    /\ UNCHANGED <<ctor_arg, ctor_exc, client, llm, agent, nq, entry_url,
                   conn1_failed, cur, cur_url, handed, body_exc, body_launches,
                   restVars>>

\* query, lines 195-209: agent.ainvoke returns or raises (logged, re-raised)
Invoke ==
    /\ pc = "invoke"
    /\ \E ok \in BOOLEAN :
         /\ q_exc' = IF ok THEN "none" ELSE "InvokeErr"
         /\ cause' = IF ok THEN "none" ELSE "InvokeErr"
    /\ pc' = "idle"
    /\ UNCHANGED <<ctor_arg, ctor_exc, client, elastic_url, llm, agent, nq,
                   useVars, nsess, open, restVars>>

----------------------------------------------------------------------------
(* main.py: ElasticsearchTool._run and the FastAPI handlers *)

\* Python truthiness of an Optional[str]
Truthy(x) == x # NONE /\ x # ""

\* values of body.get("question"): None when the key is missing
Questions == {NONE, "", "errors today?", "disk usage"}

ToolQueries == {"error", "timeout", ""}

DateValues == {NONE, "", "2024-01-01", "2024-01-31"}

\* how requests.get(...) / res.json() end in _run
HttpOutcomes == {"hits", "no_hits", "request_error", "json_error"}

AgentResults == {"answer A", "answer B"}

\* HasDateRange with 'or' for 'and'
HasDateRangeAny(start_date, end_date) == Truthy(start_date) \/ Truthy(end_date)

\* line 34
HasDateRange(start_date, end_date) == Truthy(start_date) /\ Truthy(end_date)

\* lines 33-42
MustClauses(query, start_date, end_date) ==
    <<[match |-> [message |-> query]]>>
    \o IF HasDateRange(start_date, end_date)
       THEN <<[range |-> [timestamp |-> [gte |-> start_date, lte |-> end_date]]]>>
       ELSE <<>>

\* lines 44-51
SearchBody(query, start_date, end_date) ==
    [query |-> [bool |-> [must |-> MustClauses(query, start_date, end_date)]],
     size |-> 5]

\* lines 53-71: the string _run returns
RunReturn(outcome) ==
    CASE outcome = "hits" -> [kind |-> "results", error |-> FALSE]
      [] outcome = "no_hits" -> [kind |-> "No logs found.", error |-> FALSE]
      [] OTHER -> [kind |-> "Error: " \o outcome, error |-> TRUE]

\* NotQuestion as 'question is None'
NotQuestionOnlyNone(q) == q = NONE

\* line 105: not question
NotQuestion(q) == ~Truthy(q)

\* GET / (lines 97-99)
Home ==
    /\ rpc = "idle"
    /\ http_reply' = [message |-> "LangChain Elasticsearch Tool Agent is running."]
    /\ UNCHANGED <<rpc, question, agent_runs, run_arg, run_result, ntools,
                   tool_args, tool_body, tool_fail, tool_ret, clientVars>>

\* POST /query (lines 101-108): the error reply, or the call of agent.run
PostQuery(q) ==
    /\ rpc = "idle"
    /\ question' = q
    /\ run_result' = NONE
    /\ ntools' = 0
    /\ IF NotQuestion(q)
       THEN /\ http_reply' = [error |-> "Missing 'question' in body"]
            /\ agent_runs' = 0
            /\ run_arg' = NONE
            /\ rpc' = "idle"
       ELSE /\ http_reply' = [pending |-> TRUE]
            /\ agent_runs' = 1
            /\ run_arg' = q
            /\ rpc' = "running"
    /\ UNCHANGED <<tool_args, tool_body, tool_fail, tool_ret, clientVars>>

\* ElasticsearchTool._run (lines 31-71), called by the agent loop
ToolRun(query, start_date, end_date, outcome) ==
    /\ rpc = "running"
    /\ ntools < MaxToolCalls
    /\ ntools' = ntools + 1
    /\ tool_args' = <<query, start_date, end_date>>
    /\ tool_body' = SearchBody(query, start_date, end_date)
    /\ tool_fail' = (outcome \in {"request_error", "json_error"})
    /\ tool_ret' = RunReturn(outcome)
    /\ UNCHANGED <<rpc, question, agent_runs, run_arg, run_result, http_reply,
                   clientVars>>

\* lines 108-109: agent.run returns and the handler replies
AgentReturn(result) ==
    /\ rpc = "running"
    /\ run_result' = result
    /\ http_reply' = [response |-> result]
    /\ rpc' = "idle"
    /\ UNCHANGED <<question, agent_runs, run_arg, ntools, tool_args, tool_body,
                   tool_fail, tool_ret, clientVars>>

\* line 108: agent.run raises; the handler has no except and the exception
\* leaves it
AgentRaise ==
    /\ rpc = "running"
    /\ http_reply' = [raised |-> "AgentErr"]
    /\ rpc' = "idle"
    /\ UNCHANGED <<question, agent_runs, run_arg, run_result, ntools, tool_args,
                   tool_body, tool_fail, tool_ret, clientVars>>

----------------------------------------------------------------------------
(* Specifications *)

Init ==
    /\ pc = "new"
    /\ ctor_arg = NoneArg
    /\ ctor_exc = "none"
    /\ client = FALSE
    /\ elastic_url = <<>>
    /\ llm = FALSE
    /\ agent = 0
    /\ nq = 0
    /\ q_exc = "none"
    /\ cause = "none"
    /\ gs = "ended"
    /\ e_saved = "none"
    /\ entry_url = <<>>
    /\ launches = <<>>
    /\ conn1_failed = FALSE
    /\ conn2_ok = FALSE
    /\ cur = 0
    /\ cur_url = <<>>
    /\ handed = 0
    /\ yields = 0
    /\ body_exc = "none"
    /\ body_launches = 0
    /\ nsess = 0
    /\ open = {}
    /\ rpc = "idle"
    /\ question = NONE
    /\ agent_runs = 0
    /\ run_arg = NONE
    /\ run_result = NONE
    /\ http_reply = [pending |-> TRUE]
    /\ ntools = 0
    /\ tool_args = <<>>
    /\ tool_body = [pending |-> TRUE]
    /\ tool_fail = FALSE
    /\ tool_ret = [kind |-> NONE, error |-> FALSE]

\* the MCP agent program
Next ==
    \/ \E arg \in UrlInputs : Construct(arg)
    \/ QueryStart
    \/ InitLLM
    \/ EnterSession
    \/ Body
    \/ ExitSession
    \/ Invoke

Spec == Init /\ [][Next]_vars

\* the REST agent service
NextRest ==
    \/ Home
    \/ \E q \in Questions : PostQuery(q)
    \/ \E query \in ToolQueries, sd \in DateValues, ed \in DateValues,
          outcome \in HttpOutcomes : ToolRun(query, sd, ed, outcome)
    \/ \E result \in AgentResults : AgentReturn(result)
    \/ AgentRaise

SpecRest == Init /\ [][NextRest]_vars

----------------------------------------------------------------------------
(* Properties *)

\* a str of whitespace only (the empty str included)
OnlyWhitespace(s) == \A k \in 1..Len(s) : s[k] \in Whitespace

\* u2 is u1 with its scheme rewritten to http:// (line 104 rewrites every
\* "https://" of the URL, so one in the path or query becomes http:// as well)
HttpFormOf(u2, u1) ==
    /\ StartsWith(u2, HTTP_PREFIX)
    /\ UrlNetloc(u2) = UrlNetloc(u1)
    /\ u2 = Replace(u1, HTTPS_PREFIX, HTTP_PREFIX)

\* C1: for an https URL whose host is 10.*, 172.*, 192.168.* or localhost, a
\* failed first connection attempt is followed by a second attempt with the
\* http:// form of the URL, and when that succeeds the caller holds the
\* http-backed session; for any other URL no second attempt is made.
C1_FallbackByHost ==
    launches # <<>> =>
        /\ (WarnsInternalHttps(entry_url) /\ conn1_failed) =>
              /\ Len(launches) = 2
              /\ HttpFormOf(launches[2], entry_url)
              /\ conn2_ok => (handed = 1 /\ cur_url = launches[2])
        /\ ~WarnsInternalHttps(entry_url) => Len(launches) <= 1

C3_BlankRejected ==
    /\ (pc # "new" /\ (ctor_arg.isNone \/ OnlyWhitespace(ctor_arg.str))) =>
          /\ ctor_exc = "ValueError"
          /\ ~client
          /\ pc = "rejected"
          /\ launches = <<>>
          /\ nsess = 0
    /\ client => ~OnlyWhitespace(elastic_url)

\* C3 witness: a whitespace-only str was rejected
C3_WhitespaceRejected ==
    /\ pc = "rejected"
    /\ ~ctor_arg.isNone
    /\ Len(ctor_arg.str) > 0
    /\ OnlyWhitespace(ctor_arg.str)
    /\ ctor_exc = "ValueError"

\* C4: a non-blank URL without a scheme or without a host is rejected with
\* ValueError, and every accepted URL has a scheme and a host.
C4_MalformedRejected ==
    /\ (/\ pc # "new"
        /\ ~ctor_arg.isNone
        /\ ~OnlyWhitespace(ctor_arg.str)
        /\ \/ UrlScheme(ctor_arg.str) = <<>>
           \/ UrlHostname(ctor_arg.str) = <<>>) => (ctor_exc = "ValueError" /\ ~client)
    /\ client => (UrlScheme(elastic_url) # <<>> /\ UrlHostname(elastic_url) # <<>>)

\* C5: the URL the validator returns and __init__ stores is the input without
\* its trailing slashes and otherwise unchanged, it does not end with '/', and
\* validating it again returns it unchanged. (elastic_url keeps that value
\* until a successful http fallback rewrites its scheme, line 130, and never
\* ends with '/'.)
C5_TrailingSlashStripped ==
    client =>
        LET in == ctor_arg.str
            u == Validate(ctor_arg).url
        IN  /\ StartsWith(in, u)
            /\ u # <<>>
            /\ u[Len(u)] # "/"
            /\ \A k \in (Len(u) + 1)..Len(in) : in[k] = "/"
            /\ Validate(StrArg(u)) = [exc |-> "none", url |-> u]
            /\ nq = 0 => elastic_url = u
            /\ elastic_url \in {u, Replace(u, HTTPS_PREFIX, HTTP_PREFIX)}
            /\ elastic_url[Len(elastic_url)] # "/"

\* C5 witness: a URL with two trailing slashes was accepted and stored
C5_SlashesStripped ==
    /\ client
    /\ pc = "idle"
    /\ nq = 0
    /\ Len(ctor_arg.str) = Len(elastic_url) + 2
    /\ ctor_arg.str[Len(ctor_arg.str)] = "/"

\* C6: POST /query with a non-empty question calls agent.run once, with that
\* question, and replies {"response": <what agent.run returned>}; with a
\* missing or empty question it replies an error object and agent.run is not
\* called.
C6_QueryHandler ==
    /\ agent_runs <= 1
    /\ rpc = "running" =>
          (question \notin {NONE, ""} /\ agent_runs = 1 /\ run_arg = question)
    /\ "response" \in DOMAIN http_reply =>
          /\ question \notin {NONE, ""}
          /\ agent_runs = 1
          /\ run_arg = question
          /\ http_reply.response = run_result
          /\ run_result \in AgentResults
    /\ "error" \in DOMAIN http_reply => (question \in {NONE, ""} /\ agent_runs = 0)
    /\ (rpc = "idle" /\ question = "") => agent_runs = 0

\* C6 witness: a question was answered after the agent used its tool
C6_Answered ==
    /\ rpc = "idle"
    /\ "response" \in DOMAIN http_reply
    /\ ntools > 0
    /\ agent_runs = 1

\* C7 (as claimed): the must list starts with the match clause and holds the
\* range clause exactly when a date bound is supplied.
C7_RangeWhenAnyBound ==
    tool_args # <<>> =>
        LET must == tool_body.query.bool.must
        IN  /\ tool_body.size = 5
            /\ must[1] = [match |-> [message |-> tool_args[1]]]
            /\ Len(must) <= 2
            /\ Len(must) = 2 <=> (tool_args[2] # NONE \/ tool_args[3] # NONE)

\* C7 (amended): the must list starts with the match clause and holds the
\* range clause, as its second and last element, exactly when start_date and
\* end_date are both supplied and non-empty.
C7_RangeWhenBothBounds ==
    tool_args # <<>> =>
        LET must == tool_body.query.bool.must
            sd == tool_args[2]
            ed == tool_args[3]
        IN  /\ DOMAIN tool_body = {"query", "size"}
            /\ tool_body.size = 5
            /\ must[1] = [match |-> [message |-> tool_args[1]]]
            /\ Len(must) <= 2
            /\ Len(must) = 2 <=> (sd \notin {NONE, ""} /\ ed \notin {NONE, ""})
            /\ Len(must) = 2 =>
                  must[2] = [range |-> [timestamp |-> [gte |-> sd, lte |-> ed]]]

\* C7 witness: _run was called with one bound only and built no range clause
C7_LoneBoundDropped ==
    /\ tool_args # <<>>
    /\ tool_args[2] = "2024-01-01"
    /\ tool_args[3] = NONE
    /\ Len(tool_body.query.bool.must) = 1

\* C8: a query() that ends in the failure of an external call raises that
\* call's exception to its caller, and raises nothing otherwise.
C8_OriginalReraised ==
    (pc = "idle" /\ nq > 0) => q_exc = cause

\* C9: an exception raised by the body of the with block starts no further
\* connection attempt, makes the generator yield no second session, and
\* reaches the caller as that same exception.
C9_BodyErrorNoFallback ==
    body_exc # "none" =>
        /\ Len(launches) = body_launches
        /\ yields <= 1
        /\ pc = "idle" => q_exc = body_exc

\* C10: when query() invokes the agent, the MCP session its tools were loaded
\* from is open.
C10_SessionOpenAtInvoke ==
    pc = "invoke" => agent \in open

====
